---- MODULE Spec2Model ----
(***************************************************************************)
(* The CV analysis pipeline of cv_analyzer.py: text extraction, the call   *)
(* to the scoring service and the parsing of its response, duplicate       *)
(* detection by content fingerprint, the derived skills gaps and red       *)
(* flags, and the batch loop of main() over the uploaded files, with the   *)
(* session store processed_cvs and its save/load to disk.                  *)
(***************************************************************************)
EXTENDS Integers, Sequences, FiniteSets, TLC

\* Bounds of the model: the files uploaded in one batch, the batches run in
\* one session, the content blocks of one scoring response, and the largest
\* years_relevant and score handed to the derived-metric functions.
MaxFiles == 2
MaxBatches == 2
MaxSegments == 2
MaxYears == 3
MaxScore == 11

(***************************************************************************)
(* Uploaded files.  A file is a name and its bytes.  Of the two byte       *)
(* contents, cvA is UTF-8 text and pdfP is a well-formed PDF (binary, not  *)
(* decodable as UTF-8).  The same text is uploaded under two names, once   *)
(* with an extension that does not fit its bytes.                          *)
(***************************************************************************)
Names == {"a.txt", "c.pdf"}
Bytes == {"cvA", "pdfP"}
Files ==
    {[name |-> "a.txt", bytes |-> "cvA"],
     [name |-> "c.pdf", bytes |-> "cvA"],
     [name |-> "c.pdf", bytes |-> "pdfP"]}

Suffix == [n \in Names |-> IF n = "c.pdf" THEN ".pdf" ELSE ".txt"]
endswith(file_name, suffix) == Suffix[file_name] = suffix

IsPdf(b) == b = "pdfP"
IsDocx(b) == FALSE
IsUtf8(b) == b = "cvA"
PageText == [b \in Bytes |-> "pages of pdfP"]
ParagraphText == [b \in Bytes |-> "paragraphs"]
Decoded == [b \in Bytes |-> "text of cvA"]

\* read_file_content: the extracted text, and whether the extraction raised
\* (the exception is caught inside, reported with st.error, and the text
\* gathered so far, here the empty string, is returned).
read_file_content(file_obj) ==
    IF endswith(file_obj.name, ".pdf")
    THEN IF IsPdf(file_obj.bytes)
         THEN [text |-> PageText[file_obj.bytes], raised |-> FALSE]
         ELSE [text |-> "", raised |-> TRUE]
    ELSE IF endswith(file_obj.name, ".docx")
    THEN IF IsDocx(file_obj.bytes)
         THEN [text |-> ParagraphText[file_obj.bytes], raised |-> FALSE]
         ELSE [text |-> "", raised |-> TRUE]
    ELSE IF IsUtf8(file_obj.bytes)
         THEN [text |-> Decoded[file_obj.bytes], raised |-> FALSE]
         ELSE [text |-> "", raised |-> TRUE]

\* hashlib.md5(...).hexdigest(): one digest per byte content.
MD5 == [b \in Bytes |-> IF b = "cvA" THEN "9f2c" ELSE "41b7"]
Digests == {MD5[b] : b \in Bytes}
calculate_file_hash(file_content) == MD5[file_content]

(***************************************************************************)
(* Python values returned by json.loads / analyze_cv.                      *)
(***************************************************************************)
None == [py |-> "NoneType"]
DictValue(d) == [py |-> "dict", d |-> d]
IntValue(n) == [py |-> "int", n |-> n]
EmptyDict == [k \in {} |-> 0]

\* Python truthiness, as tested by `if analysis:`.
Truthy(v) ==
    CASE v.py = "NoneType" -> FALSE
      [] v.py = "dict" -> DOMAIN v.d # {}
      [] v.py = "int" -> v.n # 0

Assessment(fe, an, ex, yrs, team, uk) ==
    [location |-> [is_uk |-> uk],
     skills |-> [finance_economics |-> fe, analytical |-> an, excel |-> ex,
                 python_sql |-> 5],
     experience |-> [years_relevant |-> yrs, autonomy |-> 5,
                     industry_relevance |-> 5],
     cultural_fit |-> [learning_orientation |-> 5, impact_driven |-> 5,
                       team_orientation |-> team]]

Without(d, key) == [k \in DOMAIN d \ {key} |-> d[k]]

\* The JSON objects the scoring service answers with, by the token that
\* stands for the object's members in a response text.
\* good is the answer in the requested format; noskills is good without its
\* skills member; odd has scores outside 0..10, a negative years_relevant
\* and its own skills_gaps and red_flags members.
ObjectBody ==
    [good |-> Assessment(8, 7, 9, 3, 8, TRUE),
     noskills |-> Without(Assessment(8, 7, 9, 3, 8, TRUE), "skills"),
     odd |-> [skills_gaps |-> <<"gap named by the model">>,
              red_flags |-> <<"flag named by the model">>]
             @@ Assessment(6, 7, 11, 0 - 1, 4, FALSE)]

(***************************************************************************)
(* json.loads on a text of tokens: white space around the document is      *)
(* skipped, then the text must be exactly one JSON document.               *)
(***************************************************************************)
RECURSIVE lstrip(_)
lstrip(t) == IF t # <<>> /\ Head(t) = " " THEN lstrip(Tail(t)) ELSE t
RECURSIVE rstrip(_)
rstrip(t) ==
    IF t # <<>> /\ t[Len(t)] = " " THEN rstrip(SubSeq(t, 1, Len(t) - 1)) ELSE t

JSONDecodeError == [py |-> "JSONDecodeError"]

json_loads(text) ==
    LET core == rstrip(lstrip(text)) IN
    IF core = <<"{", "}">> THEN DictValue(EmptyDict)
    ELSE IF Len(core) = 3 /\ core[1] = "{" /\ core[3] = "}"
            /\ core[2] \in DOMAIN ObjectBody
    THEN DictValue(ObjectBody[core[2]])
    ELSE IF core = <<"42">> THEN IntValue(42)
    ELSE JSONDecodeError

(***************************************************************************)
(* Responses of client.messages.create.                                    *)
(***************************************************************************)
Texts ==
    {<<"{", b, "}">> : b \in DOMAIN ObjectBody}
    \cup {<<"{", "}">>, <<"42">>, <<"Here is the JSON:", "{", "good", "}">>,
          <<"{", "good", "}", " ">>}

TextBlock(t) == [type |-> "text", text |-> t]
ToolUseBlock == [type |-> "tool_use"]

RECURSIVE Cuts(_, _)
Cuts(t, n) ==
    IF n = 1 THEN {<<TextBlock(t)>>}
    ELSE UNION {{<<TextBlock(SubSeq(t, 1, k))>> \o rest :
                    rest \in Cuts(SubSeq(t, k + 1, Len(t)), n - 1)} :
                k \in 0..Len(t)}

BlockLists ==
    {<<>>, <<ToolUseBlock>>}
    \cup UNION {Cuts(t, n) : t \in Texts, n \in 1..MaxSegments}

Responses ==
    {[raises |-> TRUE]}
    \cup {[raises |-> FALSE, content |-> [type |-> "str", text |-> t]] :
            t \in Texts}
    \cup {[raises |-> FALSE, content |-> [type |-> "list", blocks |-> bl]] :
            bl \in BlockLists}

\* Lines 102-104: the text handed to json.loads, or the exception raised on
\* the way (caught by the outer handler at line 115).
response_text(response) ==
    IF response.raises THEN [raised |-> TRUE]
    ELSE IF response.content.type = "list"
    THEN IF response.content.blocks = <<>> THEN [raised |-> TRUE]
         ELSE IF "text" \notin DOMAIN response.content.blocks[1]
         THEN [raised |-> TRUE]
         ELSE [raised |-> FALSE, text |-> response.content.blocks[1].text]
    ELSE [raised |-> FALSE, text |-> response.content.text]

\* analyze_cv: the parsed value, or None after reporting an error.
analyze_cv(response) ==
    LET rt == response_text(response) IN
    IF rt.raised THEN None
    ELSE IF json_loads(rt.text) = JSONDecodeError THEN None
    ELSE json_loads(rt.text)

\* The st.error message analyze_cv shows, if any.
analyze_cv_error(response) ==
    LET rt == response_text(response) IN
    IF rt.raised THEN "Error in Claude analysis"
    ELSE IF json_loads(rt.text) = JSONDecodeError
    THEN "Failed to parse Claude's response as JSON"
    ELSE "none"

(***************************************************************************)
(* EnhancedCVAnalyzer: the derived metrics.                                *)
(***************************************************************************)
\* analyze_skills_gap with the finance threshold compared by <= instead of <.
analyze_skills_gap_le(skills_dict) ==
    LET g1 == IF skills_dict.finance_economics <= 7
              THEN <<"Finance/Economics knowledge below threshold">>
              ELSE <<>>
        g2 == IF skills_dict.excel < 6
              THEN Append(g1, "Excel proficiency needs improvement")
              ELSE g1
    IN  IF skills_dict.analytical < 7
        THEN Append(g2, "Analytical skills need strengthening")
        ELSE g2

analyze_skills_gap(skills_dict) ==
    LET g1 == IF skills_dict.finance_economics < 7
              THEN <<"Finance/Economics knowledge below threshold">>
              ELSE <<>>
        g2 == IF skills_dict.excel < 6
              THEN Append(g1, "Excel proficiency needs improvement")
              ELSE g1
    IN  IF skills_dict.analytical < 7
        THEN Append(g2, "Analytical skills need strengthening")
        ELSE g2

\* detect_red_flags with the location test inverted (the `not` left out).
detect_red_flags_uk(cv_analysis) ==
    LET f1 == IF cv_analysis.experience.years_relevant < 2
              THEN <<"Limited relevant experience">>
              ELSE <<>>
        f2 == IF cv_analysis.skills.excel < 5
              THEN Append(f1, "Insufficient Excel proficiency")
              ELSE f1
        f3 == IF cv_analysis.cultural_fit.team_orientation < 5
              THEN Append(f2, "Potential team fit concerns")
              ELSE f2
    IN  IF cv_analysis.location.is_uk
        THEN Append(f3, "Non-UK location - visa may be required")
        ELSE f3

detect_red_flags(cv_analysis) ==
    LET f1 == IF cv_analysis.experience.years_relevant < 2
              THEN <<"Limited relevant experience">>
              ELSE <<>>
        f2 == IF cv_analysis.skills.excel < 5
              THEN Append(f1, "Insufficient Excel proficiency")
              ELSE f1
        f3 == IF cv_analysis.cultural_fit.team_orientation < 5
              THEN Append(f2, "Potential team fit concerns")
              ELSE f2
    IN  IF ~cv_analysis.location.is_uk
        THEN Append(f3, "Non-UK location - visa may be required")
        ELSE f3

\* The exception lines 400-401 raise on a truthy analysis, "none" if none.
enrich_exception(analysis) ==
    IF analysis.py # "dict" THEN "TypeError"
    ELSE IF "skills" \notin DOMAIN analysis.d THEN "KeyError: 'skills'"
    ELSE IF "experience" \notin DOMAIN analysis.d
    THEN "KeyError: 'experience'"
    ELSE IF "cultural_fit" \notin DOMAIN analysis.d
    THEN "KeyError: 'cultural_fit'"
    ELSE IF "location" \notin DOMAIN analysis.d THEN "KeyError: 'location'"
    ELSE "none"

\* enrich with dict.setdefault in place of assignment: members the model
\* supplied are kept.
enrich_setdefault(analysis, file_name) ==
    DictValue(analysis.d
              @@ [skills_gaps |-> analyze_skills_gap(analysis.d.skills),
                  red_flags |-> detect_red_flags(analysis.d),
                  filename |-> file_name])

\* Lines 400-402: the three assignments into the analysis dict.
enrich(analysis, file_name) ==
    DictValue([skills_gaps |-> analyze_skills_gap(analysis.d.skills),
          red_flags |-> detect_red_flags(analysis.d),
          filename |-> file_name] @@ analysis.d)

\* What one call of analyze_cv can come to: the value returned and the
\* message shown, over every response of the service.
ScoringOutcomes ==
    {[analysis |-> analyze_cv(r), error |-> analyze_cv_error(r)] :
        r \in Responses}

(***************************************************************************)
(* State.                                                                  *)
(*   processed_cvs   st.session_state.processed_cvs: digest -> record      *)
(*   saved           session_state.pkl: absent, or the pickled store       *)
(*   uploaded_files, i, results, analysis                                  *)
(*                   the locals of the batch loop of main(); analysis is   *)
(*                   the value analyze_cv returned for the last file       *)
(*   pc              "idle", "loop" (inside the for loop), "done" (the     *)
(*                   script run ended normally), "aborted" (it ended with  *)
(*                   the uncaught exception exc)                           *)
(*   shown           the records the finished batch displays               *)
(*   origin          history: index and digest of the file behind each     *)
(*                   record of results                                     *)
(*   calls           history: the files sent to analyze_cv in this batch   *)
(*   reports         history: the per-document messages of this batch      *)
(*   earlier         history: the digests whose records were stored by the *)
(*                   batches before the current one                        *)
(*   nbatches        batches started in this session                       *)
(*   fnArg, fnRet    argument and result of a single function call         *)
(***************************************************************************)
VARIABLES processed_cvs, saved, uploaded_files, i, results, analysis, pc,
          exc, shown, origin, calls, reports, earlier, nbatches,
          fnArg, fnRet

session == <<processed_cvs, saved>>
locals == <<uploaded_files, i, results, analysis, pc, exc, shown>>
history == <<origin, calls, reports, earlier, nbatches>>
pure == <<fnArg, fnRet>>
vars == <<session, locals, history, pure>>

NoCall == [f |-> "none"]

\* EnhancedCVAnalyzer.__init__ on a fresh session; no batch has run.
InitSession ==
    /\ processed_cvs = EmptyDict
    /\ saved = [exists |-> FALSE]
    /\ uploaded_files = <<>>
    /\ i = 1
    /\ results = <<>>
    /\ analysis = None
    /\ pc = "idle"
    /\ exc = "none"
    /\ shown = <<>>
    /\ origin = <<>>
    /\ calls = <<>>
    /\ reports = <<>>
    /\ earlier = {}
    /\ nbatches = 0

Init ==
    /\ InitSession
    /\ fnArg = NoCall
    /\ fnRet = NoCall

\* check_duplicate looking the digest up among the stored file names.
check_duplicate_by_name(file_hash) ==
    file_hash \in {processed_cvs[h].d.filename : h \in DOMAIN processed_cvs}

check_duplicate(file_hash) == file_hash \in DOMAIN processed_cvs

\* store rebuilding the dict with the new entry alone.
store_alone(cvs, file_hash, record) == [h \in {file_hash} |-> record]

\* Line 406: st.session_state.processed_cvs[file_hash] = analysis.
store(cvs, file_hash, record) ==
    [h \in DOMAIN cvs \cup {file_hash} |->
        IF h = file_hash THEN record ELSE cvs[h]]

Batches == UNION {[1..n -> Files] : n \in 1..MaxFiles}

\* Lines 379-381: "Analyze CVs" is clicked with files uploaded.
StartBatch ==
    /\ pc # "loop"
    /\ nbatches < MaxBatches
    /\ \E files \in Batches : uploaded_files' = files
    /\ i' = 1
    /\ results' = <<>>
    /\ analysis' = None
    /\ pc' = "loop"
    /\ exc' = "none"
    /\ shown' = <<>>
    /\ origin' = <<>>
    /\ calls' = <<>>
    /\ reports' = <<>>
    /\ earlier' = earlier \cup {origin[k].hash : k \in DOMAIN origin}
    /\ nbatches' = nbatches + 1
    /\ UNCHANGED <<session, pure>>

file == uploaded_files[i]
file_hash == calculate_file_hash(file.bytes)

\* Lines 385-390: the file's digest is in the store; warn and continue.
SkipDuplicate ==
    /\ pc = "loop"
    /\ i <= Len(uploaded_files)
    /\ check_duplicate(file_hash)
    /\ reports' = Append(reports, [idx |-> i, name |-> file.name,
                                   msg |-> "Duplicate CV detected"])
    /\ i' = i + 1
    /\ UNCHANGED <<session, uploaded_files, results, analysis, pc, exc,
                   shown, origin, calls, earlier, nbatches, pure>>

\* The messages one processed file adds: read_file_content's, then
\* analyze_cv's.
messages(idx, f, error) ==
    (IF read_file_content(f).raised
     THEN <<[idx |-> idx, name |-> f.name, msg |-> "Error reading file"]>>
     ELSE <<>>)
    \o (IF error # "none"
        THEN <<[idx |-> idx, name |-> f.name, msg |-> error]>>
        ELSE <<>>)

\* Lines 385-408 for a file that is no duplicate: extract, score, and on a
\* truthy analysis attach the derived fields, append and store.
ProcessFile ==
    /\ pc = "loop"
    /\ i <= Len(uploaded_files)
    /\ ~check_duplicate(file_hash)
    /\ \E outcome \in ScoringOutcomes :
        LET cv == read_file_content(file)
            a == outcome.analysis
        IN  /\ calls' = Append(calls, [idx |-> i, name |-> file.name,
                                       bytes |-> file.bytes,
                                       text |-> cv.text,
                                       extracted |-> ~cv.raised])
            /\ analysis' = a
            /\ reports' = reports \o messages(i, file, outcome.error)
            /\ IF ~Truthy(a)
               THEN /\ i' = i + 1
                    /\ UNCHANGED <<session, results, origin, pc, exc>>
               ELSE IF enrich_exception(a) # "none"
               THEN /\ pc' = "aborted"
                    /\ exc' = enrich_exception(a)
                    /\ UNCHANGED <<session, results, origin, i>>
               ELSE /\ results' = Append(results, enrich(a, file.name))
                    /\ origin' = Append(origin, [idx |-> i,
                                                 hash |-> file_hash])
                    /\ processed_cvs' =
                           store(processed_cvs, file_hash,
                                 enrich(a, file.name))
                    /\ i' = i + 1
                    /\ UNCHANGED <<saved, pc, exc>>
    /\ UNCHANGED <<uploaded_files, shown, earlier, nbatches, pure>>

\* Lines 410-439: the loop is over; the results, if any, are displayed.
FinishBatch ==
    /\ pc = "loop"
    /\ i > Len(uploaded_files)
    /\ pc' = "done"
    /\ shown' = results
    /\ UNCHANGED <<session, uploaded_files, i, results, analysis, exc,
                   history, pure>>

\* Lines 365-367 and save_session_state: a script run that pickles the
\* session state.
SaveSession ==
    /\ pc # "loop"
    /\ saved' = [exists |-> TRUE, processed_cvs |-> processed_cvs]
    /\ UNCHANGED <<processed_cvs, locals, history, pure>>

\* Lines 358-362 and load_session_state: a script run that assigns every
\* pickled key back into the session state.
LoadSession ==
    /\ pc # "loop"
    /\ saved.exists
    /\ processed_cvs' = saved.processed_cvs
    /\ UNCHANGED <<saved, locals, history, pure>>

Next ==
    \/ StartBatch
    \/ SkipDuplicate
    \/ ProcessFile
    \/ FinishBatch
    \/ SaveSession
    \/ LoadSession

Spec == Init /\ [][Next]_vars

(***************************************************************************)
(* Single calls of the pure functions, over bounded arguments.             *)
(***************************************************************************)
Scores == (0 - 1)..MaxScore
Years == (0 - 1)..MaxYears

SkillsArgs ==
    {[finance_economics |-> fe, analytical |-> an, excel |-> ex,
      python_sql |-> 5] : fe \in Scores, an \in Scores, ex \in Scores}

RecordArgs ==
    {Assessment(7, 7, ex, yrs, team, uk) :
        ex \in Scores, yrs \in Years, team \in Scores, uk \in BOOLEAN}

PureArgs ==
    {[f |-> "analyze_skills_gap", skills_dict |-> sk] : sk \in SkillsArgs}
    \cup {[f |-> "detect_red_flags", cv_analysis |-> r] : r \in RecordArgs}
    \cup {[f |-> "analyze_cv", response |-> r] : r \in Responses}

InitPure ==
    /\ InitSession
    /\ fnArg \in PureArgs
    /\ fnRet = NoCall

CallSkillsGap ==
    /\ fnRet = NoCall
    /\ fnArg.f = "analyze_skills_gap"
    /\ fnRet' = [f |-> fnArg.f,
                 value |-> analyze_skills_gap(fnArg.skills_dict)]
    /\ UNCHANGED <<session, locals, history, fnArg>>

CallRedFlags ==
    /\ fnRet = NoCall
    /\ fnArg.f = "detect_red_flags"
    /\ fnRet' = [f |-> fnArg.f,
                 value |-> detect_red_flags(fnArg.cv_analysis)]
    /\ UNCHANGED <<session, locals, history, fnArg>>

CallAnalyzeCv ==
    /\ fnRet = NoCall
    /\ fnArg.f = "analyze_cv"
    /\ fnRet' = [f |-> fnArg.f, value |-> analyze_cv(fnArg.response)]
    /\ UNCHANGED <<session, locals, history, fnArg>>

NextPure ==
    \/ CallSkillsGap
    \/ CallRedFlags
    \/ CallAnalyzeCv

SpecPure == InitPure /\ [][NextPure]_vars

(***************************************************************************)
(* Properties of the batch loop, checked under Spec.                       *)
(***************************************************************************)
Records == {results[k] : k \in DOMAIN results}
        \cup {processed_cvs[h] : h \in DOMAIN processed_cvs}

HasReport(idx, msg) ==
    \E k \in DOMAIN reports : reports[k].idx = idx /\ reports[k].msg = msg

\* The files before position i have been handled by the loop.
Handled == 1..(i - 1)

C2_ScoredOncePerContent ==
    \A j, k \in DOMAIN calls : calls[j].bytes = calls[k].bytes => j = k

\* C3: a response that parses as JSON but has no skills member is a
\* per-document failure naming skills; it does not abort the batch, and a
\* batch that ended shows the records of the other documents.
LacksSkills(v) == v.py = "dict" /\ "skills" \notin DOMAIN v.d

C3_MissingSkillsIsPerDocument ==
    LacksSkills(analysis) =>
        /\ pc # "aborted"
        /\ pc # "loop" => shown = results
        /\ \E k \in DOMAIN reports :
              /\ reports[k].idx = calls[Len(calls)].idx
              /\ reports[k].msg = "Missing field: skills"

\* C4: every record of the results and of the store has its bounded scores
\* in 0..10 and years_relevant >= 0.
InRange(x) == 0 <= x /\ x <= 10

C4_RecordsInRange ==
    \A r \in Records :
        /\ InRange(r.d.skills.finance_economics)
        /\ InRange(r.d.skills.analytical)
        /\ InRange(r.d.skills.excel)
        /\ InRange(r.d.skills.python_sql)
        /\ InRange(r.d.experience.autonomy)
        /\ InRange(r.d.experience.industry_relevance)
        /\ InRange(r.d.cultural_fit.learning_orientation)
        /\ InRange(r.d.cultural_fit.impact_driven)
        /\ InRange(r.d.cultural_fit.team_orientation)
        /\ r.d.experience.years_relevant >= 0

\* C5: a file whose text extraction failed is reported, is not sent to
\* analyze_cv and produces no record.
C5_FailedExtractionNotScored ==
    /\ \A k \in DOMAIN calls :
          /\ calls[k].extracted
          /\ ~read_file_content(uploaded_files[calls[k].idx]).raised
    /\ \A k \in DOMAIN origin :
          ~read_file_content(uploaded_files[origin[k].idx]).raised

\* C6: in every record of the results and of the store, skills_gaps and
\* red_flags are the lists derived locally from the record's own scores.
C6_DerivedLocally ==
    \A r \in Records :
        /\ r.d.skills_gaps = analyze_skills_gap(r.d.skills)
        /\ r.d.red_flags = detect_red_flags(r.d)

\* The model's answer carried its own skills_gaps and red_flags, and the
\* record appended for it carries other, derived lists.
C6_Witness ==
    /\ Len(results) > 0
    /\ origin[Len(origin)].idx = i - 1
    /\ analysis.py = "dict"
    /\ "skills_gaps" \in DOMAIN analysis.d
    /\ "red_flags" \in DOMAIN analysis.d
    /\ results[Len(results)].d.skills_gaps # analysis.d.skills_gaps
    /\ results[Len(results)].d.red_flags # analysis.d.red_flags
    /\ calculate_file_hash(uploaded_files[i - 1].bytes)
          \in DOMAIN processed_cvs

(***************************************************************************)
(* Properties of the pure functions, checked under SpecPure.               *)
(***************************************************************************)
\* The messages of the rules that hit, in the order of the rules.
Hits(rules) ==
    LET kept == SelectSeq(rules, LAMBDA r : r.hit)
    IN  [k \in 1..Len(kept) |-> kept[k].msg]

GapRules(sk) ==
    <<[hit |-> sk.finance_economics < 7,
       msg |-> "Finance/Economics knowledge below threshold"],
      [hit |-> sk.excel < 6,
       msg |-> "Excel proficiency needs improvement"],
      [hit |-> sk.analytical < 7,
       msg |-> "Analytical skills need strengthening"]>>

\* C7: analyze_skills_gap returns exactly one entry per condition that holds
\* among finance_economics < 7, excel < 6, analytical < 7, in that order;
\* a value equal to its threshold raises no gap, and the list is empty when
\* all three are at or above their thresholds.
C7_SkillsGapExact ==
    fnRet.f = "analyze_skills_gap" =>
        LET sk == fnArg.skills_dict IN
        /\ fnRet.value = Hits(GapRules(sk))
        /\ (sk.finance_economics >= 7 /\ sk.excel >= 6 /\ sk.analytical >= 7)
              => fnRet.value = <<>>

\* The three scores sit exactly on their thresholds and no gap is returned.
C7_Witness ==
    /\ fnRet.f = "analyze_skills_gap"
    /\ fnArg.skills_dict.finance_economics = 7
    /\ fnArg.skills_dict.excel = 6
    /\ fnArg.skills_dict.analytical = 7
    /\ fnRet.value = <<>>

FlagRules(cv) ==
    <<[hit |-> cv.experience.years_relevant < 2,
       msg |-> "Limited relevant experience"],
      [hit |-> cv.skills.excel < 5,
       msg |-> "Insufficient Excel proficiency"],
      [hit |-> cv.cultural_fit.team_orientation < 5,
       msg |-> "Potential team fit concerns"],
      [hit |-> cv.location.is_uk = FALSE,
       msg |-> "Non-UK location - visa may be required"]>>

\* C8: detect_red_flags returns exactly one flag per condition that holds
\* among years_relevant < 2, excel < 5, team_orientation < 5 and is_uk
\* false, in that order; with years_relevant >= 2, excel >= 5,
\* team_orientation >= 5 and is_uk true there is no flag.
C8_RedFlagsExact ==
    fnRet.f = "detect_red_flags" =>
        LET cv == fnArg.cv_analysis IN
        /\ fnRet.value = Hits(FlagRules(cv))
        /\ (/\ cv.experience.years_relevant >= 2
            /\ cv.skills.excel >= 5
            /\ cv.cultural_fit.team_orientation >= 5
            /\ cv.location.is_uk)
              => fnRet.value = <<>>

\* Every condition holds and the four flags come back in order.
C8_Witness ==
    /\ fnRet.f = "detect_red_flags"
    /\ fnArg.cv_analysis.experience.years_relevant = 1
    /\ fnArg.cv_analysis.skills.excel = 4
    /\ fnArg.cv_analysis.cultural_fit.team_orientation = 4
    /\ ~fnArg.cv_analysis.location.is_uk
    /\ fnRet.value = <<"Limited relevant experience",
                       "Insufficient Excel proficiency",
                       "Potential team fit concerns",
                       "Non-UK location - visa may be required">>

RECURSIVE Concat(_)
Concat(blocks) ==
    IF blocks = <<>> THEN <<>> ELSE Head(blocks).text \o Concat(Tail(blocks))

\* C9: when the response content is a list of text segments, the text
\* parsed is the concatenation of the segments in order, so a valid payload
\* split over several segments gives the record it gives as one string.
C9_SegmentsConcatenated ==
    (/\ fnRet.f = "analyze_cv"
     /\ ~fnArg.response.raises
     /\ fnArg.response.content.type = "list"
     /\ fnArg.response.content.blocks # <<>>
     /\ \A k \in DOMAIN fnArg.response.content.blocks :
           "text" \in DOMAIN fnArg.response.content.blocks[k]
     /\ json_loads(Concat(fnArg.response.content.blocks)) # JSONDecodeError)
    => fnRet.value = json_loads(Concat(fnArg.response.content.blocks))

(***************************************************************************)
(* Properties of the store across batches, checked under Spec.             *)
(***************************************************************************)
\* C10 as stated: a document analysed successfully in an earlier batch
\* contributes no record to a later batch.
C10_EarlierNeverScoredAgain ==
    \A k \in DOMAIN origin : origin[k].hash \notin earlier

\* A step of the batch loop, and a step that loads the saved session.
InLoop == pc = "loop"
IsLoad == pc # "loop" /\ saved.exists /\ processed_cvs' = saved.processed_cvs

\* C10 amended: a step of a batch keeps every entry of the store and adds a
\* digest only when analyze_cv returned a truthy record for the file at
\* hand; a failed analysis leaves the digest out; a file whose digest is in
\* the store is skipped as a duplicate, unscored and without a record; and
\* only a session load takes entries out of the store.
C10_StoreStep ==
    /\ \A h \in DOMAIN processed_cvs :
          h \notin DOMAIN processed_cvs' => IsLoad
    /\ \A h \in DOMAIN processed_cvs' \ DOMAIN processed_cvs :
          \/ IsLoad
          \/ /\ InLoop
             /\ h = file_hash
             /\ Truthy(analysis')
             /\ Len(calls') = Len(calls) + 1
             /\ results' = Append(results, processed_cvs'[h])
    /\ InLoop =>
          \A h \in DOMAIN processed_cvs :
              h \in DOMAIN processed_cvs'
              /\ processed_cvs'[h] = processed_cvs[h]
    /\ (InLoop /\ i <= Len(uploaded_files)) =>
          /\ (Len(calls') > Len(calls) /\ ~Truthy(analysis'))
                => file_hash \notin DOMAIN processed_cvs'
          /\ file_hash \in DOMAIN processed_cvs
                => /\ results' = results
                   /\ calls' = calls
                   /\ processed_cvs' = processed_cvs

C10_StoreAcrossBatches == [][C10_StoreStep]_vars

\* In a later batch, a file stored by an earlier batch was skipped as a
\* duplicate without a record, and a file that was scored without success
\* was left out of the store.
C10_Witness ==
    /\ pc = "done"
    /\ Len(uploaded_files) = 2
    /\ calculate_file_hash(uploaded_files[1].bytes) \in earlier
    /\ HasReport(1, "Duplicate CV detected")
    /\ results = <<>>
    /\ \E k \in DOMAIN calls : calls[k].idx = 2
    /\ calculate_file_hash(uploaded_files[2].bytes)
          \notin DOMAIN processed_cvs

====
